---- MODULE Spec2Model ----
(***************************************************************************)
(* A model of GIFT-CIP.py: the channel rounder make_divisible, ConvLayer,  *)
(* InvertedResidual, the unfolding/folding pair of MobileViTBlock, the     *)
(* stage builders and the shape flow of GIFT_CIP.forward.                  *)
(*                                                                         *)
(* Tensors are records [shape, data, den]: shape is the size tuple, data   *)
(* the elements in logical row-major order (what reshape and contiguous()  *)
(* see) as integer numerators, and den their common denominator, so that   *)
(* bilinear resampling is computed exactly (floating-point rounding is not *)
(* modelled).  A variable not yet assigned holds None; an optional         *)
(* argument is a tuple, <<>> when it is omitted and <<v>> when it is v.    *)
(***************************************************************************)
EXTENDS Integers, Sequences, FiniteSets, TLC

VARIABLES
    pc,          \* which call has completed last
    x,           \* the tensor handed to unfolding
    patch_h,     \* MobileViTBlock.patch_h
    patch_w,     \* MobileViTBlock.patch_w
    patches,     \* unfolding's first result
    info_dict,   \* unfolding's second result
    fm,          \* folding's result
    call,        \* the arguments of the constructor / function call under study
    obj,         \* the module that call constructed, or the exception it raised
    ret          \* what the function, or the module's forward, returned or raised

vars == <<pc, x, patch_h, patch_w, patches, info_dict, fm, call, obj, ret>>
patchVars == <<x, patch_h, patch_w, patches, info_dict, fm>>

None == "None"

\* optional arguments
Omitted == <<>>
Given(v) == <<v>>

\* ---------------------------------------------------------------- bounds

MaxBatch == 2
MaxChan == 2
MaxSide == 4
MaxPatch == 2
MaxV == 12         \* make_divisible: v ranges over 0 .. MaxV in steps of 1/VDen
VDen == 4
MaxDivisor == 8
MaxMin == 9
MaxKernel == 4
MaxUnitCh == 8     \* InvertedResidual: channel counts range over 1 .. MaxUnitCh
ExpandDen == 2     \* expand_ratio ranges over 1/ExpandDen .. MaxExpandNum/ExpandDen
MaxExpandNum == 8
MaxBlocks == 3     \* stage configurations: num_blocks ranges over 0 .. MaxBlocks
MaxTDim == 8       \* transformer_channels / transformer_dim range over 1 .. MaxTDim
MaxHeads == 3      \* num_heads ranges over 1 .. MaxHeads
MaxClasses == 2    \* num_classes ranges over 1 .. MaxClasses

\* ------------------------------------------------------- integer helpers

Max(a, b) == IF a >= b THEN a ELSE b
Min(a, b) == IF a <= b THEN a ELSE b

RECURSIVE Prod(_)
Prod(s) == IF s = <<>> THEN 1 ELSE Head(s) * Prod(Tail(s))

RECURSIVE SumSeq(_)
SumSeq(s) == IF s = <<>> THEN 0 ELSE Head(s) + SumSeq(Tail(s))

\* math.ceil(a / b) for a >= 0, b > 0
CeilDiv(a, b) == (a + b - 1) \div b

\* ------------------------------------------------------------- tensors

\* the row-major stride of every dimension of a contiguous tensor
Strides(shape) ==
    [i \in 1..Len(shape) |-> Prod(SubSeq(shape, i + 1, Len(shape)))]

\* the flat 0-based offset of a 0-based multi-index
Ravel(idx, shape) ==
    LET st == Strides(shape)
    IN SumSeq([i \in 1..Len(shape) |-> idx[i] * st[i]])

\* element idx (0-based multi-index) of tensor t
At(t, idx) == t.data[Ravel(idx, t.shape) + 1]

\* Tensor.reshape(shape): same elements in the same logical order
Reshape(t, shape) == [t EXCEPT !.shape = shape]

\* Tensor.reshape(a, b, -1): the last size is inferred
ReshapeInfer(t, a, b) == Reshape(t, <<a, b, Len(t.data) \div (a * b)>>)

\* Tensor.transpose(d0, d1), dimensions 0-based as in torch: element k of the
\* result is the element of t at k's multi-index with d0 and d1 exchanged.
\* (The tensor and the strides are bound as values, so that they are
\* computed once and not once per element.)
Transpose(t, d0, d1) ==
    LET Swap(i) == IF i = d0 + 1 THEN d1 + 1 ELSE IF i = d1 + 1 THEN d0 + 1 ELSE i
    IN CHOOSE r \in
         {[shape |-> ns,
           data |-> [k \in 1..Len(tv.data) |->
                       tv.data[SumSeq([i \in 1..Len(ns) |->
                                  (((k - 1) \div nst[Swap(i)]) % ns[Swap(i)]) * ost[i]])
                               + 1]],
           den |-> tv.den] :
            tv \in {t},
            ns \in {[i \in 1..Len(t.shape) |-> t.shape[Swap(i)]]},
            ost \in {Strides(t.shape)},
            nst \in {Strides([i \in 1..Len(t.shape) |-> t.shape[Swap(i)]])}} : TRUE

\* F.interpolate(mode="bilinear", align_corners=False) along one axis:
\* the source coordinate of output index d is (d + 0.5) * in / out - 0.5,
\* clamped at 0; numerators below are over the denominator 2 * out.
SrcNum(d, insz, outsz) == Max(0, (2 * d + 1) * insz - outsz)
Idx0(d, insz, outsz) == Min(SrcNum(d, insz, outsz) \div (2 * outsz), insz - 1)
Idx1(d, insz, outsz) ==
    Idx0(d, insz, outsz) + (IF Idx0(d, insz, outsz) < insz - 1 THEN 1 ELSE 0)
Lam1(d, insz, outsz) ==
    Min(Max(SrcNum(d, insz, outsz) - Idx0(d, insz, outsz) * 2 * outsz, 0), 2 * outsz)
Lam0(d, insz, outsz) == 2 * outsz - Lam1(d, insz, outsz)

\* F.interpolate(t, size=(oh, ow), mode="bilinear", align_corners=False)
\* of a (B, C, H, W) tensor
Interpolate(t, oh, ow) ==
    CHOOSE r \in
      {LET ih == tv.shape[3]
           iw == tv.shape[4]
           \* the input element (h, w) of the plane (b, c) output element k lies in
           In(k, h, w) == tv.data[(k \div (oh * ow)) * (ih * iw) + h * iw + w + 1]
           Val(k) ==
               LET h == (k \div ow) % oh
                   w == k % ow
                   h0 == Idx0(h, ih, oh)
                   h1 == Idx1(h, ih, oh)
                   w0 == Idx0(w, iw, ow)
                   w1 == Idx1(w, iw, ow)
               IN Lam0(h, ih, oh) * (Lam0(w, iw, ow) * In(k, h0, w0)
                                     + Lam1(w, iw, ow) * In(k, h0, w1))
                  + Lam1(h, ih, oh) * (Lam0(w, iw, ow) * In(k, h1, w0)
                                       + Lam1(w, iw, ow) * In(k, h1, w1))
       IN [shape |-> <<tv.shape[1], tv.shape[2], oh, ow>>,
           data |-> [k \in 1..(tv.shape[1] * tv.shape[2] * oh * ow) |-> Val(k - 1)],
           den |-> tv.den * (2 * oh) * (2 * ow)] :
          tv \in {t}} : TRUE

\* a (b, c, h, w) tensor whose elements are pairwise different
Labelled(b, c, h, w) ==
    [shape |-> <<b, c, h, w>>, data |-> [k \in 1..(b * c * h * w) |-> k], den |-> 1]

\* ------------------------------------- MobileViTBlock.unfolding / folding

\* new_h = int(math.ceil(orig_h / patch_h) * patch_h)
NewSize(orig, p) == CeilDiv(orig, p) * p

\* the layout part of unfolding with the [B, C, N, P] -> [B, P, N, C]
\* transpose left out
UnfoldLayout_noT13(t, ph, pw) ==
    LET B == t.shape[1]
        C == t.shape[2]
        num_patch_h == t.shape[3] \div ph
        num_patch_w == t.shape[4] \div pw
        num_patches == num_patch_h * num_patch_w
        r1 == Reshape(t, <<B * C * num_patch_h, ph, num_patch_w, pw>>)
        r2 == Transpose(r1, 1, 2)
        r3 == Reshape(r2, <<B, C, num_patches, pw * ph>>)
    IN ReshapeInfer(r3, B * (pw * ph), num_patches)

\* [B, C, H, W] -> [BP, N, C] on a patch-aligned tensor
UnfoldLayout(t, ph, pw) ==
    LET B == t.shape[1]
        C == t.shape[2]
        num_patch_h == t.shape[3] \div ph
        num_patch_w == t.shape[4] \div pw
        num_patches == num_patch_h * num_patch_w
        r1 == Reshape(t, <<B * C * num_patch_h, ph, num_patch_w, pw>>)
        r2 == Transpose(r1, 1, 2)
        r3 == Reshape(r2, <<B, C, num_patches, pw * ph>>)
        r4 == Transpose(r3, 1, 3)
    IN ReshapeInfer(r4, B * (pw * ph), num_patches)

\* the metadata unfolding returns for an input of the given shape
InfoDict(shape, ph, pw) ==
    LET orig_h == shape[3]
        orig_w == shape[4]
        new_h == NewSize(orig_h, ph)
        new_w == NewSize(orig_w, pw)
    IN [orig_size |-> <<orig_h, orig_w>>,
        batch_size |-> shape[1],
        interpolate |-> (new_w # orig_w \/ new_h # orig_h),
        total_patches |-> (new_h \div ph) * (new_w \div pw),
        num_patches_w |-> new_w \div pw,
        num_patches_h |-> new_h \div ph]

unfolding(t, ph, pw) ==
    LET orig_h == t.shape[3]
        orig_w == t.shape[4]
        new_h == NewSize(orig_h, ph)
        new_w == NewSize(orig_w, pw)
        interpolate == (new_w # orig_w \/ new_h # orig_h)
        xi == IF interpolate THEN Interpolate(t, new_h, new_w) ELSE t
    IN <<UnfoldLayout(xi, ph, pw), InfoDict(t.shape, ph, pw)>>

\* the layout part of folding with the n_w <-> p_h transpose left out
FoldLayout_noT12(t, info, ph, pw) ==
    LET patch_area == pw * ph
        B == info.batch_size
        N == info.total_patches
        C == Len(t.data) \div (B * patch_area * N)
        v == Reshape(t, <<B, patch_area, N, C>>)
        r1 == Transpose(v, 1, 3)
    IN Reshape(r1, <<B, C, info.num_patches_h * ph, info.num_patches_w * pw>>)

\* [BP, N, C] -> [B, C, H, W]
FoldLayout(t, info, ph, pw) ==
    LET patch_area == pw * ph
        B == info.batch_size
        N == info.total_patches
        C == Len(t.data) \div (B * patch_area * N)
        v == Reshape(t, <<B, patch_area, N, C>>)
        r1 == Transpose(v, 1, 3)
        r2 == Reshape(r1, <<B * C * info.num_patches_h, info.num_patches_w, ph, pw>>)
        r3 == Transpose(r2, 1, 2)
    IN Reshape(r3, <<B, C, info.num_patches_h * ph, info.num_patches_w * pw>>)

\* folding that forgets to resample back to the recorded size
folding_noresize(t, info, ph, pw) == FoldLayout(t, info, ph, pw)

folding(t, info, ph, pw) ==
    LET y == FoldLayout(t, info, ph, pw)
    IN IF info.interpolate
       THEN Interpolate(y, info.orig_size[1], info.orig_size[2])
       ELSE y

\* ------------------------------------------------ the patch round trip

InitPatch ==
    /\ pc = "input"
    /\ patch_h \in 1..MaxPatch
    /\ patch_w \in 1..MaxPatch
    /\ \E b \in 1..MaxBatch, c \in 1..MaxChan, h \in 1..MaxSide, w \in 1..MaxSide :
           x = Labelled(b, c, h, w)
    /\ patches = None
    /\ info_dict = None
    /\ fm = None
    /\ call = None
    /\ obj = None
    /\ ret = None

Unfold ==
    /\ pc = "input"
    /\ \E r \in {unfolding(x, patch_h, patch_w)} :
           /\ patches' = r[1]
           /\ info_dict' = r[2]
    /\ pc' = "unfolded"
    /\ UNCHANGED <<x, patch_h, patch_w, fm, call, obj, ret>>

Fold ==
    /\ pc = "unfolded"
    /\ fm' = folding(patches, info_dict, patch_h, patch_w)
    /\ pc' = "folded"
    /\ UNCHANGED <<x, patch_h, patch_w, patches, info_dict, call, obj, ret>>

NextPatch == Unfold \/ Fold

SpecPatch == InitPatch /\ [][NextPatch]_vars

Aligned == x.shape[3] % patch_h = 0 /\ x.shape[4] % patch_w = 0

\* C1: on a patch-aligned input folding(unfolding(x)) has x's shape and
\* holds x's value at every index, and the interpolation path is not taken.
C1_RoundTripExact ==
    (pc = "folded" /\ Aligned) =>
        /\ fm.shape = x.shape
        /\ fm.den = x.den
        /\ \A k \in 1..Len(x.data) : fm.data[k] = x.data[k]
        /\ Len(fm.data) = Len(x.data)
        /\ info_dict.interpolate = FALSE

C1_Witness ==
    /\ pc = "folded"
    /\ Aligned
    /\ x.shape[1] > 1 /\ x.shape[2] > 1
    /\ patch_h > 1 /\ patch_w > 1
    /\ x.shape[3] > patch_h /\ x.shape[4] > patch_w
    /\ fm = x

\* C6: unfolding works on (H', W'), the smallest multiples of (ph, pw) that
\* are >= (H, W), sets the resampling flag exactly when (H', W') # (H, W)
\* and records (H, W); folding with that metadata returns spatial size (H, W).
C6_PaddedSizeAndRestore ==
    pc \in {"unfolded", "folded"} =>
        LET H == x.shape[3]
            W == x.shape[4]
            Hp == info_dict.num_patches_h * patch_h
            Wp == info_dict.num_patches_w * patch_w
        IN /\ Hp >= H /\ Hp - patch_h < H
           /\ Wp >= W /\ Wp - patch_w < W
           /\ Len(patches.data) = x.shape[1] * x.shape[2] * Hp * Wp
           /\ info_dict.interpolate = (<<Hp, Wp>> # <<H, W>>)
           /\ info_dict.orig_size = <<H, W>>
           /\ pc = "folded" =>
                  /\ fm.shape = x.shape
                  /\ Len(fm.data) = Prod(x.shape)

C6_Witness ==
    /\ pc = "folded"
    /\ x.shape = <<1, 2, 3, 3>>
    /\ patch_h = 2 /\ patch_w = 2
    /\ info_dict.num_patches_h = 2 /\ info_dict.num_patches_w = 2
    /\ info_dict.interpolate
    /\ fm.shape = <<1, 2, 3, 3>>

\* C7: on a patch-aligned (B, C, H, W) input unfolding returns shape
\* (B*ph*pw, (H/ph)*(W/pw), C) and puts element (b, c, h, w) at index
\* (b*ph*pw + (h mod ph)*pw + (w mod pw), (h div ph)*(W/pw) + (w div pw), c).
C7_UnfoldIndexMap ==
    (pc \in {"unfolded", "folded"} /\ Aligned) =>
        LET B == x.shape[1]
            C == x.shape[2]
            H == x.shape[3]
            W == x.shape[4]
        IN /\ patches.shape =
                  <<B * patch_h * patch_w, (H \div patch_h) * (W \div patch_w), C>>
           /\ \A b \in 0..(B - 1), c \in 0..(C - 1), h \in 0..(H - 1), w \in 0..(W - 1) :
                  At(patches,
                     <<b * patch_h * patch_w + (h % patch_h) * patch_w + (w % patch_w),
                       (h \div patch_h) * (W \div patch_w) + (w \div patch_w),
                       c>>)
                  = At(x, <<b, c, h, w>>)

C7_Witness ==
    /\ pc = "unfolded"
    /\ x.shape = <<2, 2, 4, 4>>
    /\ patch_h = 2 /\ patch_w = 2
    /\ patches.shape = <<8, 4, 2>>
    /\ At(patches, <<7, 3, 1>>) = At(x, <<1, 1, 3, 3>>)
    /\ At(patches, <<1, 2, 0>>) = At(x, <<0, 0, 2, 1>>)

\* ------------------------------------------------------- make_divisible

\* v is a fixed-point number: the integer vnum stands for vnum / VDen.
IntV(n) == n * VDen

\* make_divisible without the "if new_v < 0.9 * v" correction
make_divisible_nobump(vnum, divisor, min_value) ==
    LET m == IF min_value = Omitted THEN divisor ELSE min_value[1]
    IN Max(m, (((2 * vnum + divisor * VDen) \div (2 * VDen)) \div divisor) * divisor)

\* int(v + divisor / 2) is the floor of (2 vnum + divisor VDen) / (2 VDen),
\* and new_v < 0.9 * v is 10 VDen new_v < 9 vnum
make_divisible(vnum, divisor, min_value) ==
    LET m == IF min_value = Omitted THEN divisor ELSE min_value[1]
        new_v == Max(m, (((2 * vnum + divisor * VDen) \div (2 * VDen)) \div divisor)
                        * divisor)
    IN IF 10 * VDen * new_v < 9 * vnum THEN new_v + divisor ELSE new_v

InitDiv ==
    /\ pc = "call"
    /\ call \in [fn : {"make_divisible"},
                 v : 0..(MaxV * VDen),
                 divisor : 1..MaxDivisor,
                 min_value : {Omitted} \cup {Given(m) : m \in 1..MaxMin}]
    /\ obj = None
    /\ ret = None
    /\ x = None /\ patch_h = None /\ patch_w = None
    /\ patches = None /\ info_dict = None /\ fm = None

Return_make_divisible ==
    /\ pc = "call"
    /\ call.fn = "make_divisible"
    /\ ret' = make_divisible(call.v, call.divisor, call.min_value)
    /\ pc' = "returned"
    /\ UNCHANGED <<call, obj, patchVars>>

NextDiv == Return_make_divisible

SpecDiv == InitDiv /\ [][NextDiv]_vars

\* the minimum the call works with
Minimum == IF call.min_value = Omitted THEN call.divisor ELSE call.min_value[1]

DivGuarantee ==
    /\ ret > 0
    /\ ret % call.divisor = 0
    /\ ret >= Minimum
    /\ 10 * VDen * ret >= 9 * call.v

\* C2 as stated: for every v >= 0 and positive divisor, the minimum passed
\* explicitly or defaulted, the result is a positive multiple of divisor
\* that is >= the minimum and >= 0.9 v.
C2_Original == pc = "returned" => DivGuarantee

\* C2 amended: the same guarantee when the minimum is the default or an
\* explicit positive multiple of divisor.
C2_Amended ==
    (pc = "returned"
     /\ (call.min_value = Omitted
         \/ (call.min_value[1] > 0 /\ call.min_value[1] % call.divisor = 0)))
    => DivGuarantee

\* the 0.9 correction acts: 11 rounds down to 8 < 9.9 and is raised to 16
C2_Witness ==
    /\ pc = "returned"
    /\ call.v = IntV(11) /\ call.divisor = 8 /\ call.min_value = Omitted
    /\ ret = 16

\* ------------------------------------------------------------ ConvLayer

\* A Python int argument k is the tuple <<k>>, a Python pair the tuple <<a, b>>.
\* isinstance(arg, int) -> (arg, arg)
AsPair(arg) == IF Len(arg) = 1 THEN <<arg[1], arg[1]>> ELSE arg

\* int(n / 2): true division, then truncation toward zero
TruncHalf(n) == IF n >= 0 THEN n \div 2 ELSE -((-n) \div 2)

\* padding that pads with the whole kernel overhang on each side
Padding_full(kernel_size) == <<kernel_size[1] - 1, kernel_size[2] - 1>>

Padding(kernel_size) ==
    <<TruncHalf(kernel_size[1] - 1), TruncHalf(kernel_size[2] - 1)>>

ConvLayer(in_channels, out_channels, kernel_size, stride, groups, bias, use_norm, use_act) ==
    [in_channels |-> in_channels,
     out_channels |-> out_channels,
     kernel_size |-> AsPair(kernel_size),
     stride |-> AsPair(stride),
     groups |-> groups,
     padding |-> Padding(AsPair(kernel_size)),
     bias |-> bias,
     norm |-> use_norm,
     act |-> use_act]

\* nn.Conv2d's output size along one axis (dilation 1)
Conv2dOut(sz, k, s, p) == ((sz + 2 * p - k) \div s) + 1

\* ConvLayer.forward on the shape of a (N, C, H, W) tensor: nn.Conv2d raises
\* when the channel count is not in_channels or the padded input is smaller
\* than the kernel; BatchNorm2d (num_features = out_channels) and SiLU keep
\* the shape.
ConvLayer_forward(layer, t) ==
    LET N == t.shape[1]
        C == t.shape[2]
        H == t.shape[3]
        W == t.shape[4]
    IN IF \/ C # layer.in_channels
          \/ H + 2 * layer.padding[1] < layer.kernel_size[1]
          \/ W + 2 * layer.padding[2] < layer.kernel_size[2]
       THEN [error |-> "RuntimeError"]
       ELSE [shape |-> <<N, layer.out_channels,
                         Conv2dOut(H, layer.kernel_size[1], layer.stride[1],
                                   layer.padding[1]),
                         Conv2dOut(W, layer.kernel_size[2], layer.stride[2],
                                   layer.padding[2])>>]

IsError(r) == "error" \in DOMAIN r

KernelArgs ==
    {<<k>> : k \in 1..MaxKernel} \cup ((1..MaxKernel) \X (1..MaxKernel))

InitConv ==
    /\ pc = "call"
    /\ call \in [cls : {"ConvLayer"},
                 in_channels : 1..MaxChan,
                 out_channels : 1..MaxChan,
                 kernel_size : KernelArgs,
                 stride : {<<1>>, <<2>>},
                 use_norm : BOOLEAN,
                 use_act : BOOLEAN]
    /\ obj = None
    /\ ret = None
    /\ x = None /\ patch_h = None /\ patch_w = None
    /\ patches = None /\ info_dict = None /\ fm = None

New_ConvLayer ==
    /\ pc = "call"
    /\ call.cls = "ConvLayer"
    /\ obj' = ConvLayer(call.in_channels, call.out_channels, call.kernel_size,
                        call.stride, 1, FALSE, call.use_norm, call.use_act)
    /\ pc' = "constructed"
    /\ UNCHANGED <<call, ret, patchVars>>

Forward_ConvLayer ==
    /\ pc = "constructed"
    /\ call.cls = "ConvLayer"
    /\ \E n \in 1..MaxBatch, h \in 1..MaxSide, w \in 1..MaxSide :
           /\ x' = [shape |-> <<n, call.in_channels, h, w>>]
           /\ ret' = ConvLayer_forward(obj, [shape |-> <<n, call.in_channels, h, w>>])
    /\ pc' = "forwarded"
    /\ UNCHANGED <<call, obj, patch_h, patch_w, patches, info_dict, fm>>

NextConv == New_ConvLayer \/ Forward_ConvLayer

SpecConv == InitConv /\ [][NextConv]_vars

PaddingIsHalfKernel ==
    pc \in {"constructed", "forwarded"} =>
        /\ obj.padding[1] = (obj.kernel_size[1] - 1) \div 2
        /\ obj.padding[2] = (obj.kernel_size[2] - 1) \div 2

\* C9 as stated: the padding is (floor((kh-1)/2), floor((kw-1)/2)) and with
\* stride 1 the output spatial size equals the input's, for every kernel
\* size kh, kw >= 1.
C9_Original ==
    /\ PaddingIsHalfKernel
    /\ (pc = "forwarded" /\ obj.stride = <<1, 1>>) =>
           /\ x.shape[3] + 2 * obj.padding[1] - obj.kernel_size[1] + 1 = x.shape[3]
           /\ x.shape[4] + 2 * obj.padding[2] - obj.kernel_size[2] + 1 = x.shape[4]
           /\ ~IsError(ret) =>
                  /\ ret.shape[3] = x.shape[3]
                  /\ ret.shape[4] = x.shape[4]

\* C9 amended: the padding formula holds for every kernel size, and with
\* stride 1 the height is preserved when kh is odd and the width when kw is
\* odd.
C9_Amended ==
    /\ PaddingIsHalfKernel
    /\ (pc = "forwarded" /\ obj.stride = <<1, 1>>) =>
           /\ obj.kernel_size[1] % 2 = 1 /\ obj.kernel_size[2] % 2 = 1
                  => ~IsError(ret)
           /\ (~IsError(ret) /\ obj.kernel_size[1] % 2 = 1)
                  => ret.shape[3] = x.shape[3]
           /\ (~IsError(ret) /\ obj.kernel_size[2] % 2 = 1)
                  => ret.shape[4] = x.shape[4]

C9_Witness ==
    /\ pc = "forwarded"
    /\ obj.kernel_size = <<3, 3>>
    /\ obj.padding = <<1, 1>>
    /\ obj.stride = <<1, 1>>
    /\ x.shape = <<1, 2, 4, 3>>
    /\ ret = [shape |-> <<1, obj.out_channels, 4, 3>>]

\* ----------------------------------------------------- InvertedResidual

\* Python's round() of the non-negative fraction num / den: to the nearest
\* integer, a tie to the even one
PyRound(num, den) ==
    LET q == num \div den
        r == num % den
    IN IF 2 * r < den THEN q
       ELSE IF 2 * r > den THEN q + 1
       ELSE IF q % 2 = 0 THEN q ELSE q + 1

\* use_res_connect with the stride test forgotten
UseResConnect_nostride(stride, in_channels, out_channels, skip_connection) ==
    in_channels = out_channels /\ skip_connection

UseResConnect(stride, in_channels, out_channels, skip_connection) ==
    stride = 1 /\ in_channels = out_channels /\ skip_connection

\* expand_ratio is the fraction expand_num / ExpandDen
InvertedResidual(in_channels, out_channels, stride, expand_num, skip_connection) ==
    IF stride \notin {1, 2}
    THEN [error |-> "AssertionError"]
    ELSE
      LET hidden_dim ==
              make_divisible(IntV(PyRound(in_channels * expand_num, ExpandDen)),
                             8, Omitted)
          exp_1x1 ==
              IF expand_num # ExpandDen
              THEN <<[name |-> "exp_1x1",
                      layer |-> ConvLayer(in_channels, hidden_dim, <<1>>, <<1>>, 1,
                                          FALSE, TRUE, TRUE)]>>
              ELSE <<>>
          conv_3x3 ==
              [name |-> "conv_3x3",
               layer |-> ConvLayer(hidden_dim, hidden_dim, <<3>>, <<stride>>,
                                   hidden_dim, FALSE, TRUE, TRUE)]
          red_1x1 ==
              [name |-> "red_1x1",
               layer |-> ConvLayer(hidden_dim, out_channels, <<1>>, <<1>>, 1,
                                   FALSE, TRUE, FALSE)]
      IN [block |-> exp_1x1 \o <<conv_3x3, red_1x1>>,
          in_channels |-> in_channels,
          out_channels |-> out_channels,
          exp |-> expand_num,
          stride |-> stride,
          use_res_connect |->
              UseResConnect(stride, in_channels, out_channels, skip_connection)]

\* nn.Sequential of named ConvLayers applied to t, from layer i on
RECURSIVE BlockForward(_, _, _)
BlockForward(block, i, t) ==
    IF i > Len(block) \/ IsError(t)
    THEN t
    ELSE \* the layer's output y is computed once, then handed on
         CHOOSE r \in {BlockForward(block, i + 1, y) :
                           y \in {ConvLayer_forward(block[i].layer, t)}} : TRUE

\* InvertedResidual.forward: the result carries its shape and the summands
\* it is made of ("x" is the identity term)
InvertedResidual_forward(unit, t) ==
    LET b == BlockForward(unit.block, 1, t)
    IN IF IsError(b) THEN b
       ELSE IF unit.use_res_connect
       THEN IF b.shape = t.shape
            THEN [shape |-> b.shape, terms |-> {"x", "block(x)"}]
            ELSE [error |-> "RuntimeError"]
       ELSE [shape |-> b.shape, terms |-> {"block(x)"}]

InitUnit ==
    /\ pc = "call"
    /\ call \in [cls : {"InvertedResidual"},
                 in_channels : 1..MaxUnitCh,
                 out_channels : 1..MaxUnitCh,
                 stride : 1..3,
                 expand_ratio : 1..MaxExpandNum,
                 skip_connection : BOOLEAN]
    /\ obj = None
    /\ ret = None
    /\ x = None /\ patch_h = None /\ patch_w = None
    /\ patches = None /\ info_dict = None /\ fm = None

New_InvertedResidual ==
    /\ pc = "call"
    /\ call.cls = "InvertedResidual"
    /\ obj' = InvertedResidual(call.in_channels, call.out_channels, call.stride,
                               call.expand_ratio, call.skip_connection)
    /\ pc' = "constructed"
    /\ UNCHANGED <<call, ret, patchVars>>

Forward_InvertedResidual ==
    /\ pc = "constructed"
    /\ call.cls = "InvertedResidual"
    /\ ~IsError(obj)
    /\ \E n \in 1..MaxBatch, h \in 1..MaxSide :
           /\ x' = [shape |-> <<n, call.in_channels, h, h>>]
           /\ ret' = InvertedResidual_forward(
                         obj, [shape |-> <<n, call.in_channels, h, h>>])
    /\ pc' = "forwarded"
    /\ UNCHANGED <<call, obj, patch_h, patch_w, patches, info_dict, fm>>

NextUnit == New_InvertedResidual \/ Forward_InvertedResidual

SpecUnit == InitUnit /\ [][NextUnit]_vars

ResidualCondition ==
    call.stride = 1 /\ call.in_channels = call.out_channels /\ call.skip_connection

\* C3: forward(x) is x + block(x) if and only if stride == 1 and
\* in_channels == out_channels and skip_connection; otherwise (in particular
\* stride 2 with equal channel counts) it is block(x) with no identity term.
C3_ResidualIff ==
    /\ (pc \in {"constructed", "forwarded"} /\ ~IsError(obj)) =>
           (obj.use_res_connect <=> ResidualCondition)
    /\ (pc = "forwarded" /\ ~IsError(ret)) =>
           ret.terms = IF ResidualCondition THEN {"x", "block(x)"} ELSE {"block(x)"}

C3_Witness ==
    /\ pc = "forwarded"
    /\ call.stride = 2
    /\ call.in_channels = 8 /\ call.out_channels = 8
    /\ call.skip_connection
    /\ ~IsError(ret)
    /\ ret.terms = {"block(x)"}

\* C8 as stated: with expansion ratio exactly 1 the 1x1 expansion is omitted
\* and the depthwise 3x3 stage's input channel count and group count equal
\* in_channels, the channel count of the tensor it receives.
C8_DepthwiseConsumesInChannels ==
    (pc \in {"constructed", "forwarded"} /\ ~IsError(obj)
     /\ call.expand_ratio = ExpandDen) =>
        /\ obj.block[1].name = "conv_3x3"
        /\ obj.block[1].layer.in_channels = call.in_channels
        /\ obj.block[1].layer.groups = call.in_channels

\* ------------------------------------------------------- MobileViTBlock

\* the construction-time test of MobileViTBlock with the assert missing
HeadDimCheck_off(transformer_dim, head_dim) ==
    IF head_dim = 0 THEN "ZeroDivisionError" ELSE "ok"

\* assert transformer_dim % head_dim == 0
HeadDimCheck(transformer_dim, head_dim) ==
    IF head_dim = 0 THEN "ZeroDivisionError"
    ELSE IF transformer_dim % head_dim # 0 THEN "AssertionError"
    ELSE "ok"

\* MobileViTBlock.__init__; the three dropout rates are passed through to
\* the encoder and are left out.  global_rep is the stack of
\* n_transformer_blocks encoders followed by LayerNorm(transformer_dim).
MobileViTBlock(in_channels, transformer_dim, ffn_dim, n_transformer_blocks, head_dim, p_h, p_w, conv_ksize) ==
    IF HeadDimCheck(transformer_dim, head_dim) # "ok"
    THEN [error |-> HeadDimCheck(transformer_dim, head_dim)]
    ELSE
      LET num_heads == transformer_dim \div head_dim
      IN [local_rep |->
              <<[name |-> "conv_3x3",
                 layer |-> ConvLayer(in_channels, in_channels, <<conv_ksize>>, <<1>>,
                                     1, FALSE, TRUE, TRUE)],
                [name |-> "conv_1x1",
                 layer |-> ConvLayer(in_channels, transformer_dim, <<1>>, <<1>>,
                                     1, FALSE, FALSE, FALSE)]>>,
          global_rep |-> [embed_dim |-> transformer_dim,
                          ffn_latent_dim |-> ffn_dim,
                          num_heads |-> num_heads,
                          n_layers |-> n_transformer_blocks],
          conv_proj |-> ConvLayer(transformer_dim, in_channels, <<1>>, <<1>>,
                                  1, FALSE, TRUE, TRUE),
          fusion |-> ConvLayer(2 * in_channels, in_channels, <<conv_ksize>>, <<1>>,
                               1, FALSE, TRUE, TRUE),
          patch_h |-> p_h,
          patch_w |-> p_w,
          patch_area |-> p_w * p_h,
          cnn_in_dim |-> in_channels,
          cnn_out_dim |-> transformer_dim,
          n_heads |-> num_heads,
          ffn_dim |-> ffn_dim,
          n_blocks |-> n_transformer_blocks,
          conv_ksize |-> conv_ksize]

\* unfolding on shapes: [B, C, H, W] -> [BP, N, C]
unfolding_shape(shape, ph, pw) ==
    LET info == InfoDict(shape, ph, pw)
    IN <<shape[1] * (pw * ph), info.total_patches, shape[2]>>

\* folding on shapes: [BP, N, C] -> [B, C, H, W], resized to orig_size
folding_shape(shape, info, ph, pw) ==
    IF Len(shape) # 3
    THEN [error |-> "AssertionError"]
    ELSE
      LET channels == Prod(shape) \div (info.batch_size * (pw * ph) * info.total_patches)
      IN IF info.interpolate
         THEN [shape |-> <<info.batch_size, channels,
                           info.orig_size[1], info.orig_size[2]>>]
         ELSE [shape |-> <<info.batch_size, channels,
                           info.num_patches_h * ph, info.num_patches_w * pw>>]

\* MobileViTBlock.forward on shapes; every encoder layer and the final
\* LayerNorm map (B, N, embed_dim) to the same shape and raise on another
\* feature width
MobileViTBlock_forward(blk, t) ==
    LET loc == BlockForward(blk.local_rep, 1, t)
    IN IF IsError(loc) THEN loc
       ELSE
         LET p == unfolding_shape(loc.shape, blk.patch_h, blk.patch_w)
             info == InfoDict(loc.shape, blk.patch_h, blk.patch_w)
         IN IF p[3] # blk.global_rep.embed_dim THEN [error |-> "RuntimeError"]
            ELSE
              LET f == folding_shape(p, info, blk.patch_h, blk.patch_w)
                  proj == IF IsError(f) THEN f ELSE ConvLayer_forward(blk.conv_proj, f)
              IN IF IsError(proj) THEN proj
                 ELSE IF <<proj.shape[1], proj.shape[3], proj.shape[4]>>
                         # <<t.shape[1], t.shape[3], t.shape[4]>>
                 THEN [error |-> "RuntimeError"]
                 ELSE ConvLayer_forward(
                          blk.fusion,
                          [shape |-> <<t.shape[1], t.shape[2] + proj.shape[2],
                                       t.shape[3], t.shape[4]>>])

\* -------------------------------------------------------- stage builders

\* cfg.get(key, default)
CfgGet(cfg, key, default) == IF key \in DOMAIN cfg THEN cfg[key] ELSE default

\* the stride of unit i with "if i == 0" forgotten
UnitStride_all(cfg, i) == CfgGet(cfg, "stride", 1)

\* stride = cfg.get("stride", 1) if i == 0 else 1
UnitStride(cfg, i) == IF i = 0 THEN CfgGet(cfg, "stride", 1) ELSE 1

\* the loop of _make_mobilenet_layer from iteration i on: the list of units
\* appended, or the exception of the first constructor that raises
RECURSIVE MobilenetLoop(_, _, _, _)
MobilenetLoop(i, input_channel, cfg, block) ==
    IF i >= CfgGet(cfg, "num_blocks", 2)
    THEN [block |-> block, channels |-> input_channel]
    ELSE
      LET layer == InvertedResidual(input_channel, cfg.out_channels,
                                    UnitStride(cfg, i),
                                    CfgGet(cfg, "expand_ratio", 4 * ExpandDen), TRUE)
      IN IF IsError(layer) THEN layer
         ELSE MobilenetLoop(i + 1, cfg.out_channels, cfg,
                            Append(block, [kind |-> "InvertedResidual", m |-> layer]))

\* returns [block, channels]: the nn.Sequential and the channel count
_make_mobilenet_layer(input_channel, cfg) == MobilenetLoop(0, input_channel, cfg, <<>>)

_make_mit_layer(input_channel, cfg) ==
    LET stride == CfgGet(cfg, "stride", 1)
        down == IF stride = 2
                THEN <<[kind |-> "InvertedResidual",
                        m |-> InvertedResidual(input_channel, cfg.out_channels, stride,
                                               CfgGet(cfg, "mv_expand_ratio", 4 * ExpandDen),
                                               TRUE)]>>
                ELSE <<>>
        channel == IF stride = 2 THEN cfg.out_channels ELSE input_channel
        transformer_dim == cfg.transformer_channels
        num_heads == CfgGet(cfg, "num_heads", 4)
        head_dim == transformer_dim \div num_heads
    IN IF num_heads = 0 \/ head_dim = 0 THEN [error |-> "ZeroDivisionError"]
       ELSE IF transformer_dim % head_dim # 0 THEN [error |-> "ValueError"]
       ELSE
         LET blk == MobileViTBlock(channel, transformer_dim, cfg.ffn_dim,
                                   CfgGet(cfg, "transformer_blocks", 1), head_dim,
                                   CfgGet(cfg, "patch_h", 2), CfgGet(cfg, "patch_w", 2), 3)
         IN IF IsError(blk) THEN blk
            ELSE [block |-> down \o <<[kind |-> "MobileViTBlock", m |-> blk]>>,
                  channels |-> channel]

\* nn.Sequential.forward over a list of stage modules, from module i on
RECURSIVE Sequential_forward(_, _, _)
Sequential_forward(block, i, t) ==
    IF i > Len(block) \/ IsError(t)
    THEN t
    ELSE \* the module's output y is computed once, then handed on
         CHOOSE r \in {Sequential_forward(
                            block, i + 1,
                            IF IsError(y) THEN y ELSE [shape |-> y.shape]) :
                        y \in {IF block[i].kind = "InvertedResidual"
                                THEN InvertedResidual_forward(block[i].m, t)
                                ELSE MobileViTBlock_forward(block[i].m, t)}} : TRUE

\* a configuration key that may be absent
Opt(key, vals) == {<<>>} \cup {key :> v : v \in vals}

MobilenetCfgs ==
    {[out_channels |-> c] @@ nb @@ st @@ er :
        c \in 1..MaxUnitCh,
        nb \in Opt("num_blocks", 0..MaxBlocks),
        st \in Opt("stride", 1..3),
        er \in Opt("expand_ratio", {ExpandDen, 3 * ExpandDen})}

MitCfgs ==
    {[out_channels |-> c, transformer_channels |-> td, ffn_dim |-> 2 * td]
     @@ st @@ nh @@ ph :
        c \in {MaxUnitCh},
        td \in 1..MaxTDim,
        st \in Opt("stride", 1..2),
        nh \in Opt("num_heads", 1..MaxHeads),
        ph \in Opt("patch_h", 1..MaxPatch)}

StageCalls ==
    {[fn |-> "_make_mobilenet_layer", input_channel |-> ic, cfg |-> cfg] :
        ic \in 1..MaxUnitCh, cfg \in MobilenetCfgs}
    \cup
    {[fn |-> "_make_mit_layer", input_channel |-> ic, cfg |-> cfg] :
        ic \in 1..MaxChan, cfg \in MitCfgs}
    \cup
    {[fn |-> "MobileViTBlock", in_channels |-> ic, transformer_dim |-> td,
      head_dim |-> hd, patch_h |-> ph, patch_w |-> pw] :
        ic \in 1..MaxChan,
        td \in (1..MaxTDim) \cup {100},
        hd \in (0..MaxTDim) \cup {32},
        ph \in 1..MaxPatch, pw \in 1..MaxPatch}

InitStage ==
    /\ pc = "call"
    /\ call \in StageCalls
    /\ obj = None
    /\ ret = None
    /\ x = None /\ patch_h = None /\ patch_w = None
    /\ patches = None /\ info_dict = None /\ fm = None

Call_make_mobilenet_layer ==
    /\ pc = "call"
    /\ call.fn = "_make_mobilenet_layer"
    /\ obj' = _make_mobilenet_layer(call.input_channel, call.cfg)
    /\ pc' = "constructed"
    /\ UNCHANGED <<call, ret, patchVars>>

Call_make_mit_layer ==
    /\ pc = "call"
    /\ call.fn = "_make_mit_layer"
    /\ obj' = _make_mit_layer(call.input_channel, call.cfg)
    /\ pc' = "constructed"
    /\ UNCHANGED <<call, ret, patchVars>>

New_MobileViTBlock ==
    /\ pc = "call"
    /\ call.fn = "MobileViTBlock"
    /\ obj' = MobileViTBlock(call.in_channels, call.transformer_dim,
                             2 * call.transformer_dim, 2, call.head_dim,
                             call.patch_h, call.patch_w, 3)
    /\ pc' = "constructed"
    /\ UNCHANGED <<call, ret, patchVars>>

\* the pipeline a builder returned is run on a tensor of input_channel channels
Forward_Stage ==
    /\ pc = "constructed"
    /\ call.fn \in {"_make_mobilenet_layer", "_make_mit_layer"}
    /\ ~IsError(obj)
    /\ \E n \in 1..MaxBatch, h \in {MaxSide - 1, MaxSide} :
           /\ x' = [shape |-> <<n, call.input_channel, h, h>>]
           /\ ret' = Sequential_forward(
                         obj.block, 1, [shape |-> <<n, call.input_channel, h, h>>])
    /\ pc' = "forwarded"
    /\ UNCHANGED <<call, obj, patch_h, patch_w, patches, info_dict, fm>>

Forward_MobileViTBlock ==
    /\ pc = "constructed"
    /\ call.fn = "MobileViTBlock"
    /\ ~IsError(obj)
    /\ \E n \in 1..MaxBatch, h \in {MaxSide - 1, MaxSide} :
           /\ x' = [shape |-> <<n, call.in_channels, h, h>>]
           /\ ret' = MobileViTBlock_forward(
                         obj, [shape |-> <<n, call.in_channels, h, h>>])
    /\ pc' = "forwarded"
    /\ UNCHANGED <<call, obj, patch_h, patch_w, patches, info_dict, fm>>

NextStage ==
    \/ Call_make_mobilenet_layer
    \/ Call_make_mit_layer
    \/ New_MobileViTBlock
    \/ Forward_Stage
    \/ Forward_MobileViTBlock

SpecStage == InitStage /\ [][NextStage]_vars

\* whether head_dim does not evenly divide transformer_dim
Indivisible(transformer_dim, head_dim) ==
    head_dim = 0 \/ transformer_dim % head_dim # 0

\* the head dimension _make_mit_layer hands to MobileViTBlock
BuilderHeadDim == call.cfg.transformer_channels \div CfgGet(call.cfg, "num_heads", 4)

\* C5: a MobileViTBlock whose embedding dimension is not evenly divisible by
\* its head dimension fails during construction, directly or through
\* _make_mit_layer, so forward is never run on such a block.
C5_IndivisibleFailsAtConstruction ==
    /\ (pc # "call" /\ call.fn = "MobileViTBlock"
        /\ Indivisible(call.transformer_dim, call.head_dim))
           => (IsError(obj) /\ pc = "constructed")
    /\ (pc # "call" /\ call.fn = "_make_mit_layer"
        /\ Indivisible(call.cfg.transformer_channels, BuilderHeadDim))
           => (IsError(obj) /\ pc = "constructed")

C5_Witness ==
    /\ pc = "constructed"
    /\ call.fn = "MobileViTBlock"
    /\ call.transformer_dim = 100 /\ call.head_dim = 32
    /\ obj = [error |-> "AssertionError"]

\* C10: _make_mobilenet_layer chains exactly num_blocks units; only the first
\* uses the configured stride, the others stride 1; the first maps
\* input_channel to out_channels, the others out_channels to out_channels;
\* the returned channel count is the one the pipeline outputs.
C10_MobilenetStage ==
    (pc # "call" /\ call.fn = "_make_mobilenet_layer" /\ ~IsError(obj)) =>
        LET cfg == call.cfg
            n == CfgGet(cfg, "num_blocks", 2)
        IN /\ Len(obj.block) = n
           /\ \A i \in 1..n :
                  /\ obj.block[i].kind = "InvertedResidual"
                  /\ obj.block[i].m.stride =
                         (IF i = 1 THEN CfgGet(cfg, "stride", 1) ELSE 1)
                  /\ obj.block[i].m.in_channels =
                         (IF i = 1 THEN call.input_channel ELSE cfg.out_channels)
                  /\ obj.block[i].m.out_channels = cfg.out_channels
           /\ obj.channels = (IF n = 0 THEN call.input_channel ELSE cfg.out_channels)
           /\ (pc = "forwarded" /\ ~IsError(ret)) => ret.shape[2] = obj.channels

C10_Witness ==
    /\ pc = "forwarded"
    /\ call.fn = "_make_mobilenet_layer"
    /\ call.input_channel = 3
    /\ call.cfg = [out_channels |-> 8, num_blocks |-> 3, stride |-> 2]
    /\ Len(obj.block) = 3
    /\ obj.block[1].m.stride = 2 /\ obj.block[3].m.stride = 1
    /\ obj.channels = 8
    /\ ~IsError(ret)
    /\ ret.shape[2] = 8

\* the MobileViTBlock a successful _make_mit_layer call returned: the last
\* module of the pipeline
BuiltBlock == obj.block[Len(obj.block)].m

\* C11: for every hybrid stage configuration (transformer_channels >= 1,
\* num_heads >= 1) on which _make_mit_layer succeeds, the MobileViTBlock it
\* builds has exactly the configured number of attention heads
\* (transformer_dim // head_dim with head_dim = transformer_channels //
\* num_heads equals num_heads), and whenever transformer_channels is not a
\* multiple of num_heads the builder fails with ValueError.
C11_ConfiguredHeads ==
    (pc # "call" /\ call.fn = "_make_mit_layer") =>
        LET td == call.cfg.transformer_channels
            nh == CfgGet(call.cfg, "num_heads", 4)
        IN /\ ~IsError(obj) =>
                  /\ BuiltBlock.n_heads = nh
                  /\ BuiltBlock.global_rep.num_heads = nh
           /\ td % nh # 0 => obj = [error |-> "ValueError"]

\* -------------------------------------------------------------- GIFT_CIP

\* str.lower() on the block types a configuration may name
Lower(str) ==
    IF str \in {"mobilevit", "MobileViT", "MOBILEVIT"} THEN "mobilevit"
    ELSE IF str \in {"mv2", "MV2"} THEN "mv2"
    ELSE str

_make_layer(input_channel, cfg) ==
    IF Lower(CfgGet(cfg, "block_type", "mobilevit")) = "mobilevit"
    THEN _make_mit_layer(input_channel, cfg)
    ELSE _make_mobilenet_layer(input_channel, cfg)

\* the stages names[i..] chained from input_channel on: the list of the
\* pipelines built and the last channel count, or the first exception
RECURSIVE MakeLayers(_, _, _, _, _)
MakeLayers(model_cfg, names, i, input_channel, built) ==
    IF i > Len(names)
    THEN [layers |-> built, channels |-> input_channel]
    ELSE
      LET r == _make_layer(input_channel, model_cfg[names[i]])
      IN IF IsError(r) THEN r
         ELSE MakeLayers(model_cfg, names, i + 1, r.channels, Append(built, r.block))

Linear(in_features, out_features) ==
    [in_features |-> in_features, out_features |-> out_features]

\* nn.Linear.forward on a shape: the last size must be in_features
Linear_forward(l, t) ==
    IF IsError(t) THEN t
    ELSE IF t.shape[Len(t.shape)] # l.in_features
    THEN [error |-> "RuntimeError"]
    ELSE [shape |-> [t.shape EXCEPT ![Len(t.shape)] = l.out_features]]

\* GIFT_CIP.__init__.  The four image routes are built from the same three
\* stage configurations and the two fused routes from the same two, so each
\* group holds equal modules; cls_dropout only sets a dropout rate and is
\* left out.
GIFT_CIP(model_cfg, num_classes) ==
    LET image_channels == 1
        out_channels == 16
        route == MakeLayers(model_cfg, <<"layer1", "layer2", "layer3">>, 1,
                            out_channels, <<>>)
    IN IF IsError(route) THEN route
       ELSE
         LET fused == MakeLayers(model_cfg, <<"layer4", "layer5">>, 1,
                                 route.channels, <<>>)
         IN IF IsError(fused) THEN fused
            ELSE
              LET exp_channels ==
                      Min(model_cfg.last_layer_exp_factor * fused.channels, 960)
                  stem == ConvLayer(image_channels, out_channels, <<3>>, <<2>>, 1,
                                    FALSE, TRUE, TRUE)
                  conv_1x1_exp == ConvLayer(fused.channels, exp_channels, <<1>>, <<1>>,
                                            1, FALSE, TRUE, TRUE)
              IN [conv_1_a |-> stem, layers_a |-> route.layers,
                  conv_1_v |-> stem, layers_v |-> route.layers,
                  conv_1_az |-> stem, layers_az |-> route.layers,
                  conv_1_vz |-> stem, layers_vz |-> route.layers,
                  layers_av |-> fused.layers, conv_1x1_exp_av |-> conv_1x1_exp,
                  layers_avz |-> fused.layers, conv_1x1_exp_avz |-> conv_1x1_exp,
                  layer_cf_1 |-> Linear(5, 320),
                  layer_cf_2 |-> Linear(320, 160),
                  linear1 |-> Linear(1440, 2560),
                  linear2 |-> Linear(2560, 1280),
                  linear3 |-> Linear(1280, 640),
                  last_linear4 |-> Linear(640, num_classes)]

\* a list of stage pipelines applied in order, from pipeline i on
RECURSIVE Layers_forward(_, _, _)
Layers_forward(layers, i, t) ==
    IF i > Len(layers) \/ IsError(t)
    THEN t
    ELSE CHOOSE r \in {Layers_forward(layers, i + 1, y) :
                           y \in {Sequential_forward(layers[i], 1, t)}} : TRUE

\* 0.5 * s + 0.5 * t on shapes
Average(s, t) ==
    IF IsError(s) THEN s
    ELSE IF IsError(t) THEN t
    ELSE IF s.shape # t.shape THEN [error |-> "RuntimeError"]
    ELSE s

\* AdaptiveAvgPool2d(1), Flatten, Dropout
PoolFlatten(t) ==
    IF IsError(t) THEN t ELSE [shape |-> <<t.shape[1], t.shape[2]>>]

\* torch.cat((p, q, r), dim=1) of three (N, width) tensors
Cat3(p, q, r) ==
    IF IsError(p) THEN p
    ELSE IF IsError(q) THEN q
    ELSE IF IsError(r) THEN r
    ELSE IF p.shape[1] # q.shape[1] \/ q.shape[1] # r.shape[1]
    THEN [error |-> "RuntimeError"]
    ELSE [shape |-> <<p.shape[1], p.shape[2] + q.shape[2] + r.shape[2]>>]

\* one image route: stem convolution, then layer1..layer3
Route_forward(stem, layers, t) == Layers_forward(layers, 1, ConvLayer_forward(stem, t))

\* one fused route: layer4, layer5, the 1x1 expansion, pooling
Fused_forward(layers, conv_1x1_exp, t) ==
    LET y == Layers_forward(layers, 1, t)
    IN PoolFlatten(IF IsError(y) THEN y ELSE ConvLayer_forward(conv_1x1_exp, y))

\* GIFT_CIP.forward on shapes; the record keeps the intermediate results
GIFT_CIP_forward(net, a, v, az, vz, cf) ==
    LET ra == Route_forward(net.conv_1_a, net.layers_a, a)
        rv == Route_forward(net.conv_1_v, net.layers_v, v)
        raz == Route_forward(net.conv_1_az, net.layers_az, az)
        rvz == Route_forward(net.conv_1_vz, net.layers_vz, vz)
        av == Fused_forward(net.layers_av, net.conv_1x1_exp_av, Average(ra, rv))
        avz == Fused_forward(net.layers_avz, net.conv_1x1_exp_avz, Average(raz, rvz))
        cf2 == Linear_forward(net.layer_cf_2, Linear_forward(net.layer_cf_1, cf))
        av_avz_cf == Cat3(av, avz, cf2)
        output == Linear_forward(net.last_linear4,
                      Linear_forward(net.linear3,
                          Linear_forward(net.linear2,
                              Linear_forward(net.linear1, av_avz_cf))))
    IN [a |-> ra, v |-> rv, az |-> raz, vz |-> rvz,
        av_avz_cf |-> av_avz_cf, output |-> output]

\* stage configurations the hyperparameter bundle may hold for layer1 ..
\* layer3; expansion ratios are fractions over ExpandDen
RouteStageCfgs ==
    {[block_type |-> "mv2", out_channels |-> 32, expand_ratio |-> 4 * ExpandDen,
      num_blocks |-> 1, stride |-> 1],
     [block_type |-> "mv2", out_channels |-> 64, expand_ratio |-> 4 * ExpandDen,
      num_blocks |-> 3, stride |-> 2],
     [block_type |-> "mobilevit", out_channels |-> 96, transformer_channels |-> 144,
      ffn_dim |-> 288, transformer_blocks |-> 2, patch_h |-> 2, patch_w |-> 2,
      stride |-> 2, mv_expand_ratio |-> 4 * ExpandDen, num_heads |-> 4]}

\* and for layer4 and layer5
FusedStageCfgs ==
    {[out_channels |-> 160, transformer_channels |-> 240, ffn_dim |-> 480,
      transformer_blocks |-> 3, stride |-> 2],
     [block_type |-> "MobileViT", out_channels |-> 80, transformer_channels |-> 96,
      ffn_dim |-> 192, patch_h |-> 2, patch_w |-> 2, stride |-> 2, num_heads |-> 4],
     [block_type |-> "mv2", out_channels |-> 160, num_blocks |-> 2]}

ModelCfgs ==
    [layer1 : RouteStageCfgs, layer2 : RouteStageCfgs, layer3 : RouteStageCfgs,
     layer4 : FusedStageCfgs, layer5 : FusedStageCfgs, last_layer_exp_factor : {4}]

InitNet ==
    /\ pc = "call"
    /\ call \in [cls : {"GIFT_CIP"},
                 model_cfg : ModelCfgs,
                 num_classes : 1..MaxClasses,
                 N : 1..MaxBatch]
    /\ obj = None
    /\ ret = None
    /\ x = None /\ patch_h = None /\ patch_w = None
    /\ patches = None /\ info_dict = None /\ fm = None

New_GIFT_CIP ==
    /\ pc = "call"
    /\ call.cls = "GIFT_CIP"
    /\ obj' = GIFT_CIP(call.model_cfg, call.num_classes)
    /\ pc' = "constructed"
    /\ UNCHANGED <<call, ret, patchVars>>

\* forward on four (N, 1, 224, 224) images and a (N, 5) clinical vector
Forward_GIFT_CIP ==
    /\ pc = "constructed"
    /\ call.cls = "GIFT_CIP"
    /\ ~IsError(obj)
    /\ LET img == [shape |-> <<call.N, 1, 224, 224>>]
       IN ret' = GIFT_CIP_forward(obj, img, img, img, img, [shape |-> <<call.N, 5>>])
    /\ pc' = "forwarded"
    /\ UNCHANGED <<call, obj, patchVars>>

NextNet == New_GIFT_CIP \/ Forward_GIFT_CIP

SpecNet == InitNet /\ [][NextNet]_vars

====
